---------------------------- MODULE Spec2Model ----------------------------
(***************************************************************************)
(* A model of src/main.py: a Flask service over five MongoDB collections   *)
(* (users, posts, follows, likes, comments).  Every request is handled by  *)
(* one client slot; a handler is cut into steps at its store operations,   *)
(* so that concurrent requests interleave exactly where the code touches   *)
(* the database.  The database is an external, persistent service: the     *)
(* process starts on whatever documents it already holds.                  *)
(***************************************************************************)
EXTENDS Integers, Sequences, FiniteSets, TLC

\* ------------------------------------------------------------------ bounds
MaxUsers == 2
MaxPosts == 3
MaxTime == 3

Clients == {"c1", "c2"}        \* request slots: two requests may be in flight
Identities == 1..MaxUsers      \* values of user_id (and of a token's identity)
GithubIds == 1..MaxUsers       \* values of the provider's "id"
PostIds == 1..MaxPosts         \* values of post_id
Times == 1..MaxTime            \* values of the stored timestamps
Texts == {"a", "b"}            \* values of the textual request fields

VARIABLES
    users, posts, follows, likes, comments,   \* the five collections
    client,    \* the module-level OAuth client: the account whose access
               \* token it holds (0: none yet)
    pc,        \* pc[c]: where client c's request stands in its handler
    req,       \* req[c]: the request c is handling (or handled last)
    loc,       \* loc[c]: the handler's local variables
    resp,      \* resp[c]: the response, once pc[c] = "done"
    storeOps   \* storeOps[c]: store operations the request has performed

store == <<users, posts, follows, likes, comments>>
vars == <<users, posts, follows, likes, comments, client, pc, req, loc, resp,
          storeOps>>

\* ------------------------------------------------------------- the store
None == "None"

\* The None that find_one returns, where a document is expected.
NoDoc == [_id |-> 0]

\* collection.find(filter), filter a document of field values: the documents
\* that carry each of them.
Find(coll, filter) == {d \in coll : \A f \in DOMAIN filter : d[f] = filter[f]}

\* collection.find({field: {"$in": values}})
FindIn(coll, field, values) == {d \in coll : d[field] \in values}

\* The _id the store gives an inserted document: one no document of the
\* collection carries.
NewId(coll) ==
    IF coll = {} THEN 1
    ELSE 1 + (CHOOSE m \in {d._id : d \in coll} : \A d \in coll : d._id <= m)

\* collection.insert_one(doc)
InsertOne(coll, doc) == coll \cup {[_id |-> NewId(coll)] @@ doc}

\* collection.count_documents(filter)
CountDocuments(coll, filter) == Cardinality(Find(coll, filter))

\* collection.delete_one(filter): the collections that may result (one
\* matching document less, or the collection as it is when none matches).
DeleteOne(coll, filter) ==
    IF Find(coll, filter) = {} THEN {coll}
    ELSE {coll \ {d} : d \in Find(coll, filter)}

\* ------------------------------------------------------------- helpers
\* datetime.now(datetime.timezone.utc): `datetime` is the class imported by
\* `from datetime import datetime`, which has no attribute `timezone`, so
\* evaluating the argument raises AttributeError before now() is called.
\* (What the call would give with `timezone` imported from the module: the
\* current time.)
UtcNowWorking == [raised |-> "none", value |-> MaxTime]

UtcNow == [raised |-> "AttributeError", value |-> 0]

\* validate_request(required_fields, data): the missing fields, in the
\* order of required_fields.
RECURSIVE MissingFields(_, _)
MissingFields(required_fields, data) ==
    IF required_fields = <<>> THEN <<>>
    ELSE (IF Head(required_fields) \in DOMAIN data THEN <<>>
          ELSE <<Head(required_fields)>>)
         \o MissingFields(Tail(required_fields), data)

\* (A validation that reports the first missing field only.)
ValidateFirstOnly(required_fields, data) ==
    LET m == MissingFields(required_fields, data)
    IN  [is_valid |-> m = <<>>,
         missing |-> IF m = <<>> THEN <<>> ELSE <<Head(m)>>]

validate_request(required_fields, data) ==
    LET m == MissingFields(required_fields, data)
    IN  [is_valid |-> m = <<>>, missing |-> m]

\* ------------------------------------------------------------ responses
NoResp == [status |-> 0, msg |-> "", raised |-> "none", data |-> <<>>]

Resp(status, msg) ==
    [status |-> status, msg |-> msg, raised |-> "none", data |-> <<>>]

RespData(status, msg, data) ==
    [status |-> status, msg |-> msg, raised |-> "none", data |-> data]

\* An exception no handler catches reaches Flask, which answers through the
\* registered 500 handler.
internal_error(exc) ==
    [status |-> 500, msg |-> "Internal server error", raised |-> exc,
     data |-> <<>>]

\* ------------------------------------------------------------ tokens
TokenKinds == {"valid", "missing", "malformed", "expired", "badsig"}

Tokens == {[kind |-> "valid", identity |-> u] : u \in Identities}
          \cup {[kind |-> k, identity |-> 0] : k \in TokenKinds \ {"valid"}}

NoToken == [kind |-> "missing", identity |-> 0]

\* @jwt_required() with the JWTManager's default loaders: a missing or an
\* expired token is answered 401, a token that does not decode (malformed,
\* wrong signature) 422.
jwt_required(tok) ==
    CASE tok.kind = "valid" -> NoResp
      [] tok.kind = "missing" -> Resp(401, "Missing Authorization Header")
      [] tok.kind = "expired" -> Resp(401, "Token has expired")
      [] tok.kind = "malformed" -> Resp(422, "Not enough segments")
      [] tok.kind = "badsig" -> Resp(422, "Signature verification failed")

\* get_jwt_identity()
get_jwt_identity(c) == req[c].tok.identity

Protected == {"get_profile", "create_post", "follow_user", "get_feed",
              "like_post", "unlike_post", "add_comment"}

EmptyBody == <<>>

\* ------------------------------------------------- the provisioned store
\* Documents as the handlers write them (lines 89-95, 136-144, 194-198,
\* 230-234, 269-275), with the _id the store adds.
UserDoc(u) ==
    [_id |-> u, user_id |-> u, username |-> u, github_id |-> u,
     profile_picture |-> None, created_at |-> 1]

PostDoc(p, publisher, t) ==
    [_id |-> p, post_id |-> p, caption |-> "a", image_url |-> "b",
     music_url |-> None, category |-> None, datetime_posted |-> t,
     publisher_id |-> publisher]

FollowDoc(f, t) ==
    [_id |-> (f - 1) * MaxUsers + t, follower_id |-> f, following_id |-> t,
     followed_at |-> 1]

LikeDoc(p, u) ==
    [_id |-> (p - 1) * MaxUsers + u, post_id |-> p, user_id |-> u,
     liked_at |-> 1]

CommentDoc(p, u) ==
    [_id |-> p, comment_id |-> p, post_id |-> p, user_id |-> u,
     comment |-> "a", commented_at |-> 1]

\* The publisher and the timestamp of provisioned post p, when they are not
\* chosen freely.
PublisherOf(p) == ((p - 1) % MaxUsers) + 1
PostedAt(p) == ((p - 1) % MaxTime) + 1

NoRequest == [op |-> "none", tok |-> NoToken, post_id |-> 0, body |-> EmptyBody]

ClientsIdle ==
    /\ pc = [c \in Clients |-> "idle"]
    /\ req = [c \in Clients |-> NoRequest]
    /\ loc = [c \in Clients |-> <<>>]
    /\ resp = [c \in Clients |-> NoResp]
    /\ storeOps = [c \in Clients |-> 0]

\* The store the process starts on: users 1..k have logged in, posts 1..j
\* exist (a post's publisher need not be a user: the store enforces no
\* reference), user 1 follows users 1..a, has liked posts 1..b and commented
\* on posts 1..n (on none or on all of them).  No follow edge, like or user
\* is stored twice.
Provisioned(k, j, a, b, n) ==
    /\ users = {UserDoc(u) : u \in 1..k}
    /\ posts = {PostDoc(p, PublisherOf(p), PostedAt(p)) : p \in 1..j}
    /\ follows = {FollowDoc(1, t) : t \in 1..a}
    /\ likes = {LikeDoc(p, 1) : p \in 1..b}
    /\ comments = {CommentDoc(p, 1) : p \in 1..n}

InitStore ==
    \E k \in 0..MaxUsers, j \in 0..MaxPosts :
      \E a \in 0..k, b \in 0..j, n \in {0, j} : Provisioned(k, j, a, b, n)

Init == InitStore /\ ClientsIdle /\ client = 0

\* ------------------------------------------------------------ requests
ValidTokens == {t \in Tokens : t.kind = "valid"}

Request(op, tok, post_id, body) ==
    [op |-> op, tok |-> tok, post_id |-> post_id, body |-> body]

FollowBodies == {EmptyBody} \cup {[follow_user_id |-> t] : t \in Identities}

FollowRequests(toks) ==
    {Request("follow_user", t, 0, b) : t \in toks, b \in FollowBodies}

LikeRequests(toks) ==
    {Request("like_post", t, p, EmptyBody) : t \in toks, p \in PostIds}

UnlikeRequests(toks) ==
    {Request("unlike_post", t, p, EmptyBody) : t \in toks, p \in PostIds}

DetailRequests ==
    {Request("get_post_details", t, p, EmptyBody) :
        t \in {NoToken}, p \in PostIds}

\* A request arrives at slot c.  A protected route runs @jwt_required()
\* first: a rejected token is answered at once and the view is not entered.
Receive(c, requests) ==
    /\ pc[c] = "idle"
    /\ \E r \in requests :
        LET auth == IF r.op \in Protected THEN jwt_required(r.tok)
                    ELSE NoResp
        IN  /\ req' = [req EXCEPT ![c] = r]
            /\ pc' = [pc EXCEPT ![c] = IF auth = NoResp THEN r.op ELSE "done"]
            /\ resp' = [resp EXCEPT ![c] = auth]
    /\ loc' = [loc EXCEPT ![c] = <<>>]
    /\ storeOps' = [storeOps EXCEPT ![c] = 0]
    /\ UNCHANGED <<store, client>>

\* Helpers for the steps: go on to label l / answer r, after n store operations.
Goto(c, l, n) ==
    /\ pc' = [pc EXCEPT ![c] = l]
    /\ storeOps' = [storeOps EXCEPT ![c] = @ + n]
    /\ UNCHANGED <<req, resp, client>>

Respond(c, r, n) ==
    /\ pc' = [pc EXCEPT ![c] = "done"]
    /\ resp' = [resp EXCEPT ![c] = r]
    /\ storeOps' = [storeOps EXCEPT ![c] = @ + n]
    /\ UNCHANGED <<req, loc, client>>

\* The response has been sent (the view's return): the slot is free again.
Return(c) ==
    /\ pc[c] = "done"
    /\ pc' = [pc EXCEPT ![c] = "idle"]
    /\ req' = [req EXCEPT ![c] = NoRequest]
    /\ loc' = [loc EXCEPT ![c] = <<>>]
    /\ resp' = [resp EXCEPT ![c] = NoResp]
    /\ storeOps' = [storeOps EXCEPT ![c] = 0]
    /\ UNCHANGED <<store, client>>

\* --------------------------------------------------------- follow_user
\* lines 178-189: validate the body, then look the target up
follow_user(c) ==
    /\ pc[c] = "follow_user"
    /\ LET v == validate_request(<<"follow_user_id">>, req[c].body)
       IN  IF ~v.is_valid
           THEN Respond(c, RespData(400, "Missing fields", v.missing), 0)
           ELSE IF Find(users, [user_id |-> req[c].body.follow_user_id]) = {}
           THEN Respond(c, Resp(404, "User to follow does not exist"), 1)
           ELSE Goto(c, "follow_user_191", 1) /\ UNCHANGED loc
    /\ UNCHANGED store

\* lines 191-192: is the edge there already?
follow_user_191(c) ==
    /\ pc[c] = "follow_user_191"
    /\ IF Find(follows, [follower_id |-> get_jwt_identity(c),
                         following_id |-> req[c].body.follow_user_id]) # {}
       THEN Respond(c, Resp(200, "Already following"), 1)
       ELSE Goto(c, "follow_user_194", 1) /\ UNCHANGED loc
    /\ UNCHANGED store

\* lines 194-199: build the edge (its timestamp first raises) and insert it
follow_user_194(c) ==
    /\ pc[c] = "follow_user_194"
    /\ LET now == UtcNow
       IN  IF now.raised # "none"
           THEN Respond(c, internal_error(now.raised), 0) /\ UNCHANGED store
           ELSE /\ follows' = InsertOne(follows,
                      [follower_id |-> get_jwt_identity(c),
                       following_id |-> req[c].body.follow_user_id,
                       followed_at |-> now.value])
                /\ Respond(c, Resp(200, "Successfully followed"), 1)
                /\ UNCHANGED <<users, posts, likes, comments>>

\* ----------------------------------------------------------- like_post
\* A like_post without the lookups of lines 224 and 227, and with a
\* timestamp that evaluates: the like is inserted whatever post_id names.
LikeWithoutLookup(c) ==
    /\ pc[c] = "like_post"
    /\ likes' = InsertOne(likes,
          [post_id |-> req[c].post_id,
           user_id |-> get_jwt_identity(c),
           liked_at |-> UtcNowWorking.value])
    /\ Respond(c, Resp(200, "Post liked successfully"), 1)
    /\ UNCHANGED <<users, posts, follows, comments>>

\* lines 222-225
like_post(c) ==
    /\ pc[c] = "like_post"
    /\ IF Find(posts, [post_id |-> req[c].post_id]) = {}
       THEN Respond(c, Resp(404, "Post not found"), 1)
       ELSE Goto(c, "like_post_227", 1) /\ UNCHANGED loc
    /\ UNCHANGED store

\* lines 227-228
like_post_227(c) ==
    /\ pc[c] = "like_post_227"
    /\ IF Find(likes, [post_id |-> req[c].post_id,
                       user_id |-> get_jwt_identity(c)]) # {}
       THEN Respond(c, Resp(200, "Post already liked"), 1)
       ELSE Goto(c, "like_post_230", 1) /\ UNCHANGED loc
    /\ UNCHANGED store

\* lines 230-235
like_post_230(c) ==
    /\ pc[c] = "like_post_230"
    /\ LET now == UtcNow
       IN  IF now.raised # "none"
           THEN Respond(c, internal_error(now.raised), 0) /\ UNCHANGED store
           ELSE /\ likes' = InsertOne(likes,
                      [post_id |-> req[c].post_id,
                       user_id |-> get_jwt_identity(c),
                       liked_at |-> now.value])
                /\ Respond(c, Resp(200, "Post liked successfully"), 1)
                /\ UNCHANGED <<users, posts, follows, comments>>

\* --------------------------------------------------------- unlike_post
\* lines 241-244
unlike_post(c) ==
    /\ pc[c] = "unlike_post"
    /\ IF Find(posts, [post_id |-> req[c].post_id]) = {}
       THEN Respond(c, Resp(404, "Post not found"), 1)
       ELSE Goto(c, "unlike_post_246", 1) /\ UNCHANGED loc
    /\ UNCHANGED store

\* lines 246-248
unlike_post_246(c) ==
    /\ pc[c] = "unlike_post_246"
    /\ IF Find(likes, [post_id |-> req[c].post_id,
                       user_id |-> get_jwt_identity(c)]) = {}
       THEN Respond(c, Resp(200, "Post not liked yet"), 1)
       ELSE Goto(c, "unlike_post_250", 1) /\ UNCHANGED loc
    /\ UNCHANGED store

\* An unlike whose delete_one is issued on posts instead of likes.
UnlikeDeletesPost(c) ==
    /\ pc[c] = "unlike_post_250"
    /\ posts' \in DeleteOne(posts, [post_id |-> req[c].post_id])
    /\ Respond(c, Resp(200, "Post unliked successfully"), 1)
    /\ UNCHANGED <<users, follows, likes, comments>>

\* lines 250-251
unlike_post_250(c) ==
    /\ pc[c] = "unlike_post_250"
    /\ likes' \in DeleteOne(likes, [post_id |-> req[c].post_id,
                                   user_id |-> get_jwt_identity(c)])
    /\ Respond(c, Resp(200, "Post unliked successfully"), 1)
    /\ UNCHANGED <<users, posts, follows, comments>>

\* ---------------------------------------------------- get_post_details
\* lines 152-154
get_post_details(c) ==
    /\ pc[c] = "get_post_details"
    /\ LET found == Find(posts, [post_id |-> req[c].post_id])
       IN  IF found = {}
           THEN Respond(c, Resp(404, "Post not found"), 1)
           ELSE \E post \in found :
                  /\ loc' = [loc EXCEPT ![c] = [post |-> post]]
                  /\ Goto(c, "get_post_details_157", 1)
    /\ UNCHANGED store

\* lines 156-168: the publisher lookup; publisher["username"] on the None
\* that find_one returns for an unknown publisher_id raises TypeError
get_post_details_157(c) ==
    /\ pc[c] = "get_post_details_157"
    /\ LET found == Find(users, [user_id |-> loc[c].post.publisher_id])
       IN  IF found = {}
           THEN Respond(c, internal_error("TypeError"), 1)
           ELSE \E publisher \in found :
                  /\ loc' = [loc EXCEPT ![c] =
                               [post |-> loc[c].post,
                                publisher |->
                                  [username |-> publisher.username,
                                   profile_picture |->
                                       publisher.profile_picture]]]
                  /\ Goto(c, "get_post_details_169", 1)
    /\ UNCHANGED store

\* line 169
get_post_details_169(c) ==
    /\ pc[c] = "get_post_details_169"
    /\ loc' = [loc EXCEPT ![c] =
                 [post |-> loc[c].post, publisher |-> loc[c].publisher,
                  likes_count |->
                     CountDocuments(likes, [post_id |-> req[c].post_id])]]
    /\ Goto(c, "get_post_details_170", 1)
    /\ UNCHANGED store

\* lines 170-172
get_post_details_170(c) ==
    /\ pc[c] = "get_post_details_170"
    /\ Respond(c, RespData(200, "",
           [caption |-> loc[c].post.caption,
            image_url |-> loc[c].post.image_url,
            music_url |-> loc[c].post.music_url,
            category |-> loc[c].post.category,
            datetime_posted |-> loc[c].post.datetime_posted,
            publisher |-> loc[c].publisher,
            likes_count |-> loc[c].likes_count,
            comments_count |->
               CountDocuments(comments, [post_id |-> req[c].post_id])]), 1)
    /\ UNCHANGED store

\* --------------------------------------------------------- create_post
\* generate_uuid(): a uuid4, which no stored document carries yet
generate_uuid(domain, used) == domain \ used

\* data.get(field)
Get(data, field) == IF field \in DOMAIN data THEN data[field] ELSE None

PostFields == {"caption", "image_url", "music_url", "category"}

\* The JSON objects a create-post request may carry: any of the four fields
\* present or absent, each with a value of its own.
FieldValues(field) ==
    CASE field = "caption" -> Texts
      [] field = "image_url" -> {"i"}
      [] field = "music_url" -> {"m"}
      [] field = "category" -> {"g"}

PostBodies ==
    UNION {{b \in [S -> Texts \cup {"i", "m", "g"}] :
               \A f \in S : b[f] \in FieldValues(f)} : S \in SUBSET PostFields}

CreatePostRequests(toks) ==
    {Request("create_post", t, 0, b) : t \in toks, b \in PostBodies}

\* lines 127-147
create_post(c) ==
    /\ pc[c] = "create_post"
    /\ LET data == req[c].body
           v == validate_request(<<"caption", "image_url">>, data)
           now == UtcNow
       IN  IF ~v.is_valid
           THEN Respond(c, RespData(400, "Missing fields", v.missing), 0)
                /\ UNCHANGED store
           ELSE IF now.raised # "none"
           THEN Respond(c, internal_error(now.raised), 0) /\ UNCHANGED store
           ELSE \E post_id \in generate_uuid(PostIds,
                                             {d.post_id : d \in posts}) :
                  /\ posts' = InsertOne(posts,
                        [post_id |-> post_id,
                         caption |-> data["caption"],
                         image_url |-> data["image_url"],
                         music_url |-> Get(data, "music_url"),
                         category |-> Get(data, "category"),
                         datetime_posted |-> now.value,
                         publisher_id |-> get_jwt_identity(c)])
                  /\ Respond(c, RespData(201, "Post created successfully",
                                         [post_id |-> post_id]), 1)
                  /\ UNCHANGED <<users, follows, likes, comments>>

\* ------------------------------------------------------------ get_feed
\* cursor.sort(key, -1): the documents in an order in which no document
\* comes before one with a greater key (equal keys: in any order)
RECURSIVE Orderings(_)
Orderings(docs) ==
    IF docs = {} THEN {<<>>}
    ELSE UNION {{<<d>> \o s : s \in Orderings(docs \ {d})} : d \in docs}

\* (cursor.sort(key, 1): oldest first.)
SortAscending(docs) ==
    {s \in Orderings(docs) :
        \A i, j \in 1..Len(s) :
            i < j => s[i].datetime_posted <= s[j].datetime_posted}

SortDescending(docs) ==
    {s \in Orderings(docs) :
        \A i, j \in 1..Len(s) :
            i < j => s[i].datetime_posted >= s[j].datetime_posted}

FeedRequests(toks) == {Request("get_feed", t, 0, EmptyBody) : t \in toks}

\* lines 205-207
get_feed(c) ==
    /\ pc[c] = "get_feed"
    /\ loc' = [loc EXCEPT ![c] =
                 [following_ids |->
                    {f.following_id :
                        f \in Find(follows,
                                   [follower_id |-> get_jwt_identity(c)])}]]
    /\ Goto(c, "get_feed_209", 1)
    /\ UNCHANGED store

\* lines 209-216
get_feed_209(c) ==
    /\ pc[c] = "get_feed_209"
    /\ \E feed_posts \in SortDescending(
              FindIn(posts, "publisher_id", loc[c].following_ids)) :
          Respond(c, RespData(200, "", feed_posts), 1)
    /\ UNCHANGED store

\* --------------------------------------------------------- get_profile
ProfileRequests(toks) ==
    {Request("get_profile", t, 0, EmptyBody) : t \in toks}

\* lines 106-110
get_profile(c) ==
    /\ pc[c] = "get_profile"
    /\ LET found == Find(users, [user_id |-> get_jwt_identity(c)])
       IN  IF found = {}
           THEN Respond(c, Resp(404, "User not found"), 1)
           ELSE \E user \in found :
                  /\ loc' = [loc EXCEPT ![c] = [user |-> user]]
                  /\ Goto(c, "get_profile_112", 1)
    /\ UNCHANGED store

\* lines 112-121
get_profile_112(c) ==
    /\ pc[c] = "get_profile_112"
    /\ Respond(c, RespData(200, "",
           [username |-> loc[c].user.username,
            profile_picture |-> loc[c].user.profile_picture,
            posts |-> Find(posts, [publisher_id |-> get_jwt_identity(c)])]), 1)
    /\ UNCHANGED store

\* --------------------------------------------------------- add_comment
CommentBodies == {EmptyBody} \cup {[comment |-> t] : t \in Texts}

CommentRequests(toks) ==
    {Request("add_comment", t, p, b) :
        t \in toks, p \in PostIds, b \in CommentBodies}

\* lines 257-266
add_comment(c) ==
    /\ pc[c] = "add_comment"
    /\ LET v == validate_request(<<"comment">>, req[c].body)
       IN  IF ~v.is_valid
           THEN Respond(c, RespData(400, "Missing fields", v.missing), 0)
           ELSE IF Find(posts, [post_id |-> req[c].post_id]) = {}
           THEN Respond(c, Resp(404, "Post not found"), 1)
           ELSE Goto(c, "add_comment_268", 1) /\ UNCHANGED loc
    /\ UNCHANGED store

\* lines 268-277
add_comment_268(c) ==
    /\ pc[c] = "add_comment_268"
    /\ LET now == UtcNow
       IN  IF now.raised # "none"
           THEN Respond(c, internal_error(now.raised), 0) /\ UNCHANGED store
           ELSE \E comment_id \in
                    generate_uuid(1..(Cardinality(comments) + 1),
                                  {d.comment_id : d \in comments}) :
                  /\ comments' = InsertOne(comments,
                        [comment_id |-> comment_id,
                         post_id |-> req[c].post_id,
                         user_id |-> get_jwt_identity(c),
                         comment |-> req[c].body["comment"],
                         commented_at |-> now.value])
                  /\ Respond(c, RespData(200, "Comment added successfully",
                                         [comment_id |-> comment_id]), 1)
                  /\ UNCHANGED <<users, posts, follows, likes>>

\* -------------------------------------------------------- github_login
LoginRequests == {Request("github_login", NoToken, 0, EmptyBody)}

\* lines 66-69
github_login(c) ==
    /\ pc[c] = "github_login"
    /\ Respond(c, RespData(200, "", [auth_url |-> "authorize"]), 0)
    /\ UNCHANGED store

\* ----------------------------------------------------- github_callback
\* The authorization code of a callback: g >= 1 is a code the provider
\* issued for its account g, 0 a code it rejects (invalid, expired); a
\* callback without the code parameter has an empty body.
CallbackBodies == {EmptyBody} \cup {[code |-> g] : g \in 0..MaxUsers}

CallbackRequests ==
    {Request("github_callback", NoToken, 0, b) : b \in CallbackBodies}

\* create_access_token(identity=user_id)
create_access_token(identity) == [kind |-> "valid", identity |-> identity]

\* lines 74-78: the token request goes out; requests.post has no timeout
github_callback(c) ==
    /\ pc[c] = "github_callback"
    /\ Goto(c, "github_callback_78", 0)
    /\ UNCHANGED <<store, loc>>

\* lines 78-79: the provider's answer arrives, or the connection fails;
\* parse_request_body_response keeps the token in the shared client and
\* raises on an error answer
github_callback_78(c) ==
    /\ pc[c] = "github_callback_78"
    /\ \/ Respond(c, internal_error("ConnectionError"), 0)
          /\ UNCHANGED store
       \/ LET code == IF "code" \in DOMAIN req[c].body
                       THEN req[c].body["code"] ELSE 0
          IN  IF code = 0
              THEN Respond(c, internal_error("OAuth2Error"), 0)
                   /\ UNCHANGED store
              ELSE /\ client' = code
                   /\ pc' = [pc EXCEPT ![c] = "github_callback_81"]
                   /\ UNCHANGED <<store, req, loc, resp, storeOps>>

\* lines 81-82: add_token reads the shared client's token; the user-info
\* request goes out with it (again without a timeout)
github_callback_81(c) ==
    /\ pc[c] = "github_callback_81"
    /\ loc' = [loc EXCEPT ![c] = [token |-> client]]
    /\ Goto(c, "github_callback_82", 0)
    /\ UNCHANGED store

\* lines 82-85: the provider's answer arrives (the account of the token
\* sent, or an error document without "id"), or the connection fails;
\* then the lookup by github_id
github_callback_82(c) ==
    /\ pc[c] = "github_callback_82"
    /\ \/ Respond(c, internal_error("ConnectionError"), 0)
       \/ Respond(c, internal_error("KeyError"), 0)
       \/ LET user_info == [id |-> loc[c].token, login |-> loc[c].token,
                            avatar_url |-> None]
              found == Find(users, [github_id |-> user_info.id])
          IN  /\ \E user \in (IF found = {} THEN {NoDoc} ELSE found) :
                    loc' = [loc EXCEPT ![c] =
                              [user_info |-> user_info, user |-> user]]
              /\ Goto(c, "github_callback_87", 1)
    /\ UNCHANGED store

\* lines 87-100
github_callback_87(c) ==
    /\ pc[c] = "github_callback_87"
    /\ LET user == loc[c].user
           user_info == loc[c].user_info
           now == UtcNow
       IN  IF user # NoDoc
           THEN Respond(c, RespData(200, "",
                    [access_token |-> create_access_token(user.user_id)]), 0)
                /\ UNCHANGED store
           ELSE IF now.raised # "none"
           THEN Respond(c, internal_error(now.raised), 0) /\ UNCHANGED store
           ELSE \E user_id \in generate_uuid(Identities,
                                             {d.user_id : d \in users}) :
                  /\ users' = InsertOne(users,
                        [user_id |-> user_id,
                         username |-> user_info.login,
                         github_id |-> user_info.id,
                         profile_picture |-> user_info.avatar_url,
                         created_at |-> now.value])
                  /\ Respond(c, RespData(200, "",
                        [access_token |-> create_access_token(user_id)]), 1)
                  /\ UNCHANGED <<posts, follows, likes, comments>>

\* ------------------------------------------------------ specifications
AllRequests ==
    LoginRequests \cup CallbackRequests \cup ProfileRequests(Tokens)
    \cup CreatePostRequests(Tokens) \cup DetailRequests
    \cup FollowRequests(Tokens) \cup FeedRequests(Tokens)
    \cup LikeRequests(Tokens) \cup UnlikeRequests(Tokens)
    \cup CommentRequests(Tokens)

\* One request at a time, of any kind.
Next ==
    \E c \in {"c1"} :
        \/ Receive(c, AllRequests)
        \/ Return(c)
        \/ github_login(c)
        \/ github_callback(c)
        \/ github_callback_78(c)
        \/ github_callback_81(c)
        \/ github_callback_82(c)
        \/ github_callback_87(c)
        \/ get_profile(c)
        \/ get_profile_112(c)
        \/ create_post(c)
        \/ get_post_details(c)
        \/ get_post_details_157(c)
        \/ get_post_details_169(c)
        \/ get_post_details_170(c)
        \/ follow_user(c)
        \/ follow_user_191(c)
        \/ follow_user_194(c)
        \/ get_feed(c)
        \/ get_feed_209(c)
        \/ like_post(c)
        \/ like_post_227(c)
        \/ like_post_230(c)
        \/ unlike_post(c)
        \/ unlike_post_246(c)
        \/ unlike_post_250(c)
        \/ add_comment(c)
        \/ add_comment_268(c)

Spec == Init /\ [][Next]_vars

\* Two requests in flight: follow, like and unlike requests of logged-in
\* callers, interleaved at every store operation.
EdgeRequests ==
    FollowRequests(ValidTokens) \cup LikeRequests(ValidTokens)
    \cup UnlikeRequests(ValidTokens)

NextEdges ==
    \E c \in Clients :
        \/ Receive(c, EdgeRequests)
        \/ Return(c)
        \/ follow_user(c)
        \/ follow_user_191(c)
        \/ follow_user_194(c)
        \/ like_post(c)
        \/ like_post_227(c)
        \/ like_post_230(c)
        \/ unlike_post(c)
        \/ unlike_post_246(c)
        \/ unlike_post_250(c)

InitEdges ==
    /\ \E k \in 0..MaxUsers, j \in 0..MaxPosts :
         \E a \in 0..k, b \in 0..j : Provisioned(k, j, a, b, 0)
    /\ ClientsIdle /\ client = 0

SpecEdges == InitEdges /\ [][NextEdges]_vars

\* Two login callbacks in flight.
NextLogin ==
    \E c \in Clients :
        \/ Receive(c, CallbackRequests)
        \/ Return(c)
        \/ github_callback(c)
        \/ github_callback_78(c)
        \/ github_callback_81(c)
        \/ github_callback_82(c)
        \/ github_callback_87(c)

InitLogin ==
    /\ \E k \in 0..MaxUsers : Provisioned(k, 0, 0, 0, 0)
    /\ ClientsIdle /\ client = 0

SpecLogin == InitLogin /\ [][NextLogin]_vars

\* ------------------------------------------------------------- claims
Done(c, op) == pc[c] = "done" /\ req[c].op = op

Authenticated(c) == req[c].tok.kind = "valid"

UserExists(u) == \E d \in users : d.user_id = u

PostExists(p) == \E d \in posts : d.post_id = p

Edges(f, t) == {d \in follows : d.follower_id = f /\ d.following_id = t}

LikesOf(p, u) == {d \in likes : d.post_id = p /\ d.user_id = u}

Range(s) == {s[i] : i \in 1..Len(s)}

\* C1: after a follow request (F, T) for an existing user T has been
\* answered, in a run of requests handled one after the other, the follows
\* collection holds exactly one edge (F, T) and the answer is a success:
\* "Successfully followed" for the request that inserts the edge, "Already
\* following" for every later one.
C1_FollowStoresOneEdge ==
    \A c \in Clients :
        (/\ Done(c, "follow_user") /\ Authenticated(c)
         /\ "follow_user_id" \in DOMAIN req[c].body
         /\ UserExists(req[c].body.follow_user_id))
        => /\ Cardinality(Edges(get_jwt_identity(c),
                                req[c].body.follow_user_id)) = 1
           /\ resp[c].status = 200
           /\ resp[c].msg \in {"Successfully followed", "Already following"}

\* C2: after a like request by user U on an existing post P has been
\* answered, in a run of requests handled one after the other, exactly one
\* like (P, U) is stored and the answer is a success ("Post liked
\* successfully" the first time, "Post already liked" afterwards); the
\* likes_count that get post detail reports is the number of stored likes of
\* the post.
C2_LikeStoresOneLike ==
    \A c \in Clients :
        /\ (Done(c, "like_post") /\ Authenticated(c)
            /\ PostExists(req[c].post_id))
           => /\ Cardinality(LikesOf(req[c].post_id,
                                     get_jwt_identity(c))) = 1
              /\ resp[c].status = 200
              /\ resp[c].msg \in {"Post liked successfully",
                                  "Post already liked"}
        /\ (Done(c, "get_post_details") /\ resp[c].status = 200)
           => resp[c].data.likes_count =
                 Cardinality({d \in likes : d.post_id = req[c].post_id})

\* C3: under every interleaving of login callbacks, no two user records
\* carry the same github_id.
C3_OneUserPerGithubId ==
    \A u1, u2 \in users : u1.github_id = u2.github_id => u1 = u2

\* C3's case: two callbacks for the same external id, which no user record
\* carries, have both looked the user up, found none, and gone on to create.
C3_Witness ==
    \E c, d \in Clients :
        /\ c # d
        /\ Done(c, "github_callback") /\ Done(d, "github_callback")
        /\ resp[c].raised = "AttributeError"
        /\ resp[d].raised = "AttributeError"
        /\ loc[c].user = NoDoc /\ loc[d].user = NoDoc
        /\ loc[c].user_info.id = loc[d].user_info.id

\* C4: in every reachable state no follow edge and no like is stored twice,
\* and of two identical follow or like requests in flight together (the
\* target exists), one that has been answered was answered with a success,
\* not with an error.
C4_UniqueEdgesNoError ==
    /\ \A d1, d2 \in follows :
          (d1.follower_id = d2.follower_id
           /\ d1.following_id = d2.following_id) => d1 = d2
    /\ \A d1, d2 \in likes :
          (d1.post_id = d2.post_id /\ d1.user_id = d2.user_id) => d1 = d2
    /\ \A c, d \in Clients :
          (/\ c # d /\ req[c] = req[d]
           /\ pc[c] = "done" /\ pc[d] # "idle"
           /\ req[c].op \in {"follow_user", "like_post"}
           /\ resp[c].status \notin {400, 404})
          => resp[c].status = 200

\* C5: get post detail never ends in an exception the handler does not
\* catch, also when the post's publisher_id names no user.
C5_DetailNeverRaises ==
    \A c \in Clients : Done(c, "get_post_details") => resp[c].raised = "none"

\* C6: the feed of a caller who follows the users S is exactly the stored
\* posts whose publisher is in S, each once, and no post in it comes before
\* a newer one; it is empty when S is empty.
C6_FeedIsFollowedPostsNewestFirst ==
    \A c \in Clients :
        Done(c, "get_feed") /\ Authenticated(c) =>
            LET S == {d.following_id :
                        d \in {e \in follows :
                                 e.follower_id = get_jwt_identity(c)}}
                feed == resp[c].data
            IN  /\ resp[c].status = 200
                /\ Range(feed) = {d \in posts : d.publisher_id \in S}
                /\ Len(feed) = Cardinality(Range(feed))
                /\ \A i, j \in 1..Len(feed) :
                      i < j => feed[i].datetime_posted
                               >= feed[j].datetime_posted
                /\ (S = {} => feed = <<>>)

\* C6's case: a feed of two posts with different timestamps, while a post
\* of a user the caller does not follow, posted between the two, is stored.
C6_Witness ==
    \E c \in Clients :
        /\ Done(c, "get_feed") /\ resp[c].status = 200
        /\ Len(resp[c].data) >= 2
        /\ resp[c].data[1].datetime_posted > resp[c].data[2].datetime_posted
        /\ \E d \in posts \ Range(resp[c].data) :
              /\ d.datetime_posted < resp[c].data[1].datetime_posted
              /\ d.datetime_posted > resp[c].data[2].datetime_posted

\* C7: a create-post request of an authenticated user with caption and
\* image_url is answered 201 with a post_id, and the post stored under that
\* post_id carries the request's caption, image_url, music_url and category
\* (what get post detail then returns).
C7_CreatePostRoundTrip ==
    \A c \in Clients :
        (/\ Done(c, "create_post") /\ Authenticated(c)
         /\ {"caption", "image_url"} \subseteq DOMAIN req[c].body)
        => /\ resp[c].status = 201
           /\ \E d \in posts :
                 /\ d.post_id = resp[c].data.post_id
                 /\ d.caption = req[c].body["caption"]
                 /\ d.image_url = req[c].body["image_url"]
                 /\ d.music_url = Get(req[c].body, "music_url")
                 /\ d.category = Get(req[c].body, "category")

\* C8: the step that answers an authenticated create-post request whose
\* body lacks caption or image_url answers 400, names exactly the missing
\* ones of the two fields, and leaves the posts collection as it is.
C8_MissingFieldsRejected ==
    [][\A c \in Clients :
          (/\ pc[c] = "create_post" /\ pc'[c] = "done"
           /\ ~({"caption", "image_url"} \subseteq DOMAIN req[c].body))
          => /\ resp'[c].status = 400
             /\ Range(resp'[c].data) =
                   {"caption", "image_url"} \ DOMAIN req[c].body
             /\ posts' = posts]_vars

\* C8's case: a request lacking both fields has been answered.
C8_Witness ==
    \E c \in Clients :
        /\ Done(c, "create_post") /\ Authenticated(c)
        /\ DOMAIN req[c].body \cap {"caption", "image_url"} = {}
        /\ resp[c].status = 400

\* C9: a request to a protected endpoint whose token is missing, malformed,
\* expired or wrongly signed is answered 401, and no store operation has
\* been performed for it.
C9_BadTokenIs401 ==
    \A c \in Clients :
        (/\ pc[c] = "done" /\ req[c].op \in Protected /\ ~Authenticated(c))
        => resp[c].status = 401 /\ storeOps[c] = 0

\* C10: in a run of like/unlike requests handled one after the other, after
\* a like of an existing post by U exactly one like of U is stored for it,
\* after an unlike none, each answered with a success; an unlike of an
\* absent post is answered 404.
C10_LastRequestDecides ==
    \A c \in Clients :
        /\ (Done(c, "like_post") /\ Authenticated(c)
            /\ PostExists(req[c].post_id))
           => Cardinality(LikesOf(req[c].post_id, get_jwt_identity(c))) = 1
        /\ (Done(c, "unlike_post") /\ Authenticated(c)
            /\ PostExists(req[c].post_id))
           => /\ LikesOf(req[c].post_id, get_jwt_identity(c)) = {}
              /\ resp[c].status = 200
        /\ (Done(c, "unlike_post") /\ Authenticated(c)
            /\ ~PostExists(req[c].post_id))
           => resp[c].status = 404

CommentsOf(p) == {d \in comments : d.post_id = p}

\* C11: the step that answers an authenticated add-comment request answers
\* 400 when the comment text is missing and 404 when the post does not
\* exist, storing nothing; otherwise it answers with a success and the id
\* of a comment that is now stored for the post, whose comments are one more
\* than before.
C11_AddCommentStoresOne ==
    [][\A c \in Clients :
          (/\ pc[c] \in {"add_comment", "add_comment_268"}
           /\ pc'[c] = "done")
          => IF "comment" \notin DOMAIN req[c].body
             THEN resp'[c].status = 400 /\ comments' = comments
             ELSE IF ~PostExists(req[c].post_id)
             THEN resp'[c].status = 404 /\ comments' = comments
             ELSE /\ resp'[c].status = 200
                  /\ Cardinality({d \in comments' : d.post_id = req[c].post_id})
                        = Cardinality(CommentsOf(req[c].post_id)) + 1
                  /\ \E d \in comments' \ comments :
                        /\ d.comment_id = resp'[c].data.comment_id
                        /\ d.post_id = req[c].post_id]_vars

\* C12: a follow request whose follow_user_id names no stored user is
\* answered 404 and leaves follows as it is; one whose target is stored (the
\* caller included) and for which no edge is stored is answered with a
\* confirmation and adds exactly the edge (caller, target).
C12_FollowCreatesOr404 ==
    [][\A c \in Clients :
          (/\ pc[c] \in {"follow_user", "follow_user_191", "follow_user_194"}
           /\ pc'[c] = "done"
           /\ "follow_user_id" \in DOMAIN req[c].body)
          => LET f == get_jwt_identity(c)
                 t == req[c].body.follow_user_id
             IN  IF ~UserExists(t)
                 THEN resp'[c].status = 404 /\ follows' = follows
                 ELSE Edges(f, t) = {}
                      => /\ resp'[c].status = 200
                         /\ resp'[c].msg = "Successfully followed"
                         /\ \E d \in follows' :
                               /\ d.follower_id = f /\ d.following_id = t
                               /\ follows' = follows \cup {d}]_vars

\* C13: when the token exchange ends the callback (the provider rejected
\* the code, could not be reached, or the code was absent), the response is
\* a mapped upstream error (502-class, or the provider's own client-error
\* status passed through) and not an unhandled fault; no user is created
\* and no bearer token is issued.
C13_UpstreamFailureMapped ==
    [][\A c \in Clients :
          (/\ pc[c] = "github_callback_78"
           /\ pc'[c] = "done")
          => /\ resp'[c].raised = "none"
             /\ resp'[c].status \in (400..599) \ {500}
             /\ "access_token" \notin DOMAIN resp'[c].data
             /\ users' = users]_vars

\* The handler's own steps are taken when they are enabled, and a finished
\* request is handed back; the provider's answers (github_callback_78,
\* github_callback_82) are under no such obligation, since requests.post and
\* requests.get are called without a timeout.
FairLogin ==
    \A c \in Clients :
        /\ WF_vars(github_callback(c))
        /\ WF_vars(github_callback_81(c))
        /\ WF_vars(github_callback_87(c))
        /\ WF_vars(Return(c))

SpecLoginFair == InitLogin /\ [][NextLogin]_vars /\ FairLogin

\* C14: every login-callback request that has been received is eventually
\* answered, whether or not the identity provider answers the token call
\* or the user-info call.
C14_CallbackResponds ==
    \A c \in Clients : (pc[c] = "github_callback") ~> (pc[c] = "done")

\* C15: a callback whose exchange with the provider succeeded is answered
\* 200 with a token; when no user with the external id was stored, exactly
\* one user with that external id and a fresh internal id is inserted and
\* the token is for it; when one was stored, nothing is inserted and the
\* token is for the stored internal id.
C15_FindOrCreate ==
    [][\A c \in Clients :
          (/\ pc[c] = "github_callback_87"
           /\ pc'[c] = "done")
          => /\ resp'[c].status = 200
             /\ "access_token" \in DOMAIN resp'[c].data
             /\ IF loc[c].user = NoDoc
                THEN \E d \in users' \ users :
                        /\ users' = users \cup {d}
                        /\ d.github_id = loc[c].user_info.id
                        /\ ~UserExists(d.user_id)
                        /\ resp'[c].data.access_token
                              = create_access_token(d.user_id)
                ELSE /\ users' = users
                     /\ resp'[c].data.access_token
                           = create_access_token(loc[c].user.user_id)]_vars

\* Two requests in flight: like and unlike requests of logged-in callers,
\* interleaved at every store operation.
LikeUnlikeRequests == LikeRequests(ValidTokens) \cup UnlikeRequests(ValidTokens)

NextLikes ==
    \E c \in Clients :
        \/ Receive(c, LikeUnlikeRequests)
        \/ Return(c)
        \/ like_post(c)
        \/ like_post_227(c)
        \/ like_post_230(c)
        \/ unlike_post(c)
        \/ unlike_post_246(c)
        \/ unlike_post_250(c)

InitLikes ==
    /\ \E k \in 0..MaxUsers, j \in 0..MaxPosts :
         \E b \in 0..j : Provisioned(k, j, 0, b, 0)
    /\ ClientsIdle /\ client = 0

SpecLikes == InitLikes /\ [][NextLikes]_vars

Unliked(c) ==
    Done(c, "unlike_post") /\ resp[c].msg = "Post unliked successfully"

\* C16: in every interleaving of like and unlike requests, when an unlike
\* of post P by user U answers 'Post unliked successfully' no like (P, U)
\* is stored any more, and a like of P by U is answered 'Post already liked'
\* only when a like (P, U) is stored at its lookup: so the like that follows
\* the unlike is not answered 'already liked'.
C16_UnlikedMeansNoLike ==
    [][/\ \A c \in Clients :
             (pc[c] = "unlike_post_250" /\ pc'[c] = "done")
             => /\ Unliked(c)'
                /\ LikesOf(req[c].post_id, get_jwt_identity(c))' = {}
       /\ \A d \in Clients :
             (/\ pc[d] = "like_post_227" /\ pc'[d] = "done"
              /\ resp'[d].msg = "Post already liked")
             => LikesOf(req[d].post_id, get_jwt_identity(d)) # {}]_vars

C16_Witness ==
    \E c, d \in Clients :
        /\ Unliked(c)
        /\ Done(d, "like_post")
        /\ req[d].post_id = req[c].post_id
        /\ get_jwt_identity(d) = get_jwt_identity(c)
        /\ resp[d].status = 500
        /\ LikesOf(req[c].post_id, get_jwt_identity(c)) = {}

\* C17: every stored like and every stored comment carries the post_id of
\* a stored post, and every stored follow edge carries as following_id the
\* user_id of a stored user.
C17_ReferencesExist ==
    /\ \A d \in likes : PostExists(d.post_id)
    /\ \A d \in comments : PostExists(d.post_id)
    /\ \A d \in follows : UserExists(d.following_id)

C17_Witness ==
    \E c \in Clients :
        /\ Done(c, "like_post") /\ Authenticated(c)
        /\ ~PostExists(req[c].post_id)
        /\ resp[c].status = 404
        /\ likes # {} /\ comments # {} /\ follows # {}

ReadOps == {"get_profile", "get_post_details", "get_feed", "github_login"}

\* C18: a step of a read endpoint (get profile, get post detail, get feed)
\* leaves the five collections as they are; a step of create post changes
\* at most posts, of follow at most follows, of like and unlike at most
\* likes, of add comment at most comments (and of the login callback at
\* most users); receiving and returning a request change none; and no step
\* removes or alters a stored user, post or comment.
C18_Frame ==
    [][/\ users \subseteq users'
       /\ posts \subseteq posts'
       /\ comments \subseteq comments'
       /\ \A c \in Clients :
             pc'[c] # pc[c] =>
                LET op == IF pc[c] \in {"idle", "done"} THEN "none"
                          ELSE req[c].op
                IN  /\ op \in ReadOps \cup {"none"} => UNCHANGED store
                    /\ op = "create_post"
                          => UNCHANGED <<users, follows, likes, comments>>
                    /\ op = "follow_user"
                          => UNCHANGED <<users, posts, likes, comments>>
                    /\ op \in {"like_post", "unlike_post"}
                          => UNCHANGED <<users, posts, follows, comments>>
                    /\ op = "add_comment"
                          => UNCHANGED <<users, posts, follows, likes>>
                    /\ op = "github_callback"
                          => UNCHANGED <<posts, follows, likes, comments>>]_vars

C18_Witness ==
    \E c \in Clients :
        /\ Unliked(c)
        /\ LikesOf(req[c].post_id, get_jwt_identity(c)) = {}
        /\ users # {} /\ posts # {} /\ follows # {} /\ comments # {}

=============================================================================
